---- MODULE Spec2Model ----
(***************************************************************************)
(* Model of the sampling and frame-handoff core of the visualizer:         *)
(*   src/src/CircularBuffer.cpp, src/include/CircularBuffer.h  (the ring)  *)
(*   src/src/visualizer.cpp  (ISR(ADC_vect), init_analog, init_adc,        *)
(*                            setup, loop)                                 *)
(*                                                                         *)
(* Two specifications are defined.                                         *)
(*   Spec      the program: setup() statement by statement, then the       *)
(*             foreground loop() preempted at any point by ISR(ADC_vect).  *)
(*   RingSpec  one ring driven through its public operations (write,       *)
(*             clear) from construction, as a host-side unit test does.    *)
(***************************************************************************)
EXTENDS Integers, Sequences, FiniteSets

\* ------------------------------------------------------------------ bounds

\* Capacity of each ring (the macro BUF_SIZE / BUFF_SIZE; no file of the
\* repository defines it, so the model fixes a small value).
BUF_SIZE == 3

\* Sample values delivered by the converter are drawn from 1..MaxSample
\* (0 is the value the constructor fills the storage with).
MaxSample == 2

\* Number of samples the converter delivers in one run of the model.
MaxSamples == 3 * BUF_SIZE

\* Number of operations applied to the ring under RingSpec.
MaxOps == BUF_SIZE + 5

Samples == 1..MaxSample

\* ------------------------------------------------------- program constants

\* #define ADC_PIN 0
ADC_PIN == 0

\* #define ADC_PRESCALER 16: the configured prescaler.
ADC_PRESCALER == 16

\* The identifier the #if chain tests, ADC_PRESCALAR, is defined nowhere: the
\* preprocessor evaluates an undefined identifier in #if as 0.
ADC_PRESCALAR == 0

\* The value standing for "the build stops at #error".
BuildError == 0

\* unsigned char i: the write index is 8 bits wide.
IndexModulus == 256

\* ------------------------------------------------------------------- state

VARIABLES
    regs,        \* the sampler's register bits and the global interrupt flag I
    hwlog,       \* ghost: the settings written by setup(), in program order
    pc,          \* position of the main context: "setup", then loop()'s statements
    sp,          \* index of the next statement of setup()
    rings,       \* the two ring instances, by name: "ping", "pong"
    capt_buf,    \* alias: "null", "ping" or "pong"
    proc_buf,    \* alias: "null", "ping" or "pong"
    processing,  \* the handoff flag
    stream,      \* ghost: every sample the ISR has delivered, in arrival order
    writes,      \* ghost: number of write() calls each ring has received
    adc_bits,    \* the sample width the build selected (fixed at compile time)
    ring,        \* RingSpec: the ring under test
    ops          \* RingSpec ghost: the operations applied to it, in order

vars == <<regs, hwlog, pc, sp, rings, capt_buf, proc_buf, processing,
          stream, writes, adc_bits, ring, ops>>

progVars == <<regs, hwlog, pc, sp, rings, capt_buf, proc_buf, processing,
              stream, writes, adc_bits>>

unitVars == <<ring, ops>>

\* ------------------------------------------------------------ ring container

Slots == 0..(BUF_SIZE - 1)

\* The capacity field. CircularBuffer::CircularBuffer() assigns buffer, i and
\* size but never capacity, and write() reads it. The value is the zero the
\* static storage of ping/pong starts with, or the constructor argument
\* (BUFF_SIZE at visualizer.cpp:90-91) if the declared one-argument
\* constructor stores it.
Capacities == {0, BUF_SIZE}

\* CircularBuffer::CircularBuffer(): buffer = {0}; i = 0; size = 0.
CircularBuffer(c) ==
    [buffer |-> [k \in Slots |-> 0], i |-> 0, size |-> 0, capacity |-> c]

\* write() with the wrap test off by one: if (++i > capacity) i = 0.
write_LateWrap(r, data) ==
    LET j == (r.i + 1) % IndexModulus
    IN  [r EXCEPT !.buffer[r.i] = data,
                  !.i = IF j > r.capacity THEN 0 ELSE j]

\* CircularBuffer::write: buffer[i] = data; if (++i >= capacity) i = 0.
\* size is not touched.
write(r, data) ==
    LET j == (r.i + 1) % IndexModulus
    IN  [r EXCEPT !.buffer[r.i] = data,
                  !.i = IF j >= r.capacity THEN 0 ELSE j]

\* CircularBuffer::clear: size = 0.
clear(r) == [r EXCEPT !.size = 0]

\* CircularBuffer::full: size >= BUF_SIZE.
full(r) == r.size >= BUF_SIZE

\* ------------------------------------------------ compile-time selection

\* The #if / #elif chain of visualizer.cpp:61-75 on the value it tests.
PrescalerChain(p) ==
    CASE p = 128 -> 9
      [] p = 64  -> 9
      [] p = 32  -> 9
      [] p = 16  -> 8
      [] p = 8   -> 7
      [] p = 4   -> 5
      [] OTHER   -> BuildError

\* ADC_BITS as the build computes it: the chain applied to ADC_PRESCALAR.
ADC_BITS == PrescalerChain(ADC_PRESCALAR)

\* sizeof(adc_data_t): uint16_t if ADC_BITS > 8, uint8_t otherwise.
StorageBytes(bits) == IF bits > 8 THEN 2 ELSE 1

\* The result registers the ISR reads, in order: ADC (low byte, then high
\* byte) if ADC_BITS > 8, ADCH alone otherwise.
IsrRead(bits) == IF bits > 8 THEN <<"ADCL", "ADCH">> ELSE <<"ADCH">>

\* ------------------------------------------------------- sampler registers

RegBits == {"ADC5D", "ADC4D", "ADC3D", "ADC2D", "ADC1D", "ADC0D",
            "AREF", "ADLAR", "MUX",
            "ADEN", "ADSC", "ADIE", "ADTS2", "ADTS1", "ADTS0",
            "ADPS2", "ADPS1", "ADPS0", "I"}

\* The statements of init_analog() (visualizer.cpp:192-225).
init_analog ==
    << [op |-> "sbi", bit |-> "ADC5D"],
       [op |-> "sbi", bit |-> "ADC4D"],
       [op |-> "sbi", bit |-> "ADC3D"],
       [op |-> "sbi", bit |-> "ADC2D"],
       [op |-> "sbi", bit |-> "ADC1D"],
       [op |-> "sbi", bit |-> "ADC0D"],
       [op |-> "sbi", bit |-> "AREF"],     \* analogReference(EXTERNAL)
       [op |-> "sbi", bit |-> "ADLAR"],    \* the ADC_BITS <= 8 branch
       [op |-> "mux", bit |-> "MUX"] >>    \* ADMUX |= (ADC_PIN & 7)

\* The statements of init_adc() (visualizer.cpp:148-185).
init_adc ==
    << [op |-> "sbi", bit |-> "ADEN"],
       [op |-> "sbi", bit |-> "ADSC"],
       [op |-> "sbi", bit |-> "ADIE"],
       [op |-> "cbi", bit |-> "ADTS2"],
       [op |-> "cbi", bit |-> "ADTS1"],
       [op |-> "cbi", bit |-> "ADTS0"],
       [op |-> "sbi", bit |-> "ADPS2"],
       [op |-> "cbi", bit |-> "ADPS1"],
       [op |-> "sbi", bit |-> "ADPS0"] >>

\* capt_buf = &ping;  proc_buf = &pong;
CaptTarget == "ping"
ProcTargetSameRing == "ping"
ProcTarget == "pong"

\* setup() with sei() moved up, before proc_buf and processing are assigned.
SetupProgram_EarlySei ==
    init_analog \o init_adc \o
    << [op |-> "capt", bit |-> "capt_buf"],
       [op |-> "sei",  bit |-> "I"],
       [op |-> "proc", bit |-> "proc_buf"],
       [op |-> "flag", bit |-> "processing"] >>

\* The statements of setup() (visualizer.cpp:227-238), its two calls inlined.
SetupProgram ==
    init_analog \o init_adc \o
    << [op |-> "capt", bit |-> "capt_buf"],
       [op |-> "proc", bit |-> "proc_buf"],
       [op |-> "flag", bit |-> "processing"],
       [op |-> "sei",  bit |-> "I"] >>

\* The conversion-complete interrupt is delivered when the converter is
\* enabled and running, its interrupt is enabled and so are global interrupts.
InterruptsOn ==
    /\ regs["I"] = 1
    /\ regs["ADIE"] = 1
    /\ regs["ADEN"] = 1
    /\ regs["ADSC"] = 1

\* The prescaler the converter runs with: 2 to the power of ADPS2:ADPS1:ADPS0
\* (0b101 is 32, as the comment at visualizer.cpp:172 says).
ProgrammedPrescaler ==
    2 ^ (4 * regs["ADPS2"] + 2 * regs["ADPS1"] + regs["ADPS0"])

\* ------------------------------------------------------------------- Init

\* The state at reset, after the static constructors of ping and pong.
Init ==
    /\ regs = [b \in RegBits |-> 0]
    /\ hwlog = <<>>
    /\ pc = "setup"
    /\ sp = 1
    /\ \E c \in Capacities :
          /\ rings = [n \in {"ping", "pong"} |-> CircularBuffer(c)]
          /\ ring = CircularBuffer(c)
    /\ capt_buf = "null"
    /\ proc_buf = "null"
    /\ processing = FALSE
    /\ stream = <<>>
    /\ writes = [n \in {"ping", "pong"} |-> 0]
    /\ ops = <<>>
    /\ adc_bits = ADC_BITS

\* ---------------------------------------------------------------- actions

\* setup(): one statement per step, in program order; the last one is sei().
setup ==
    /\ pc = "setup"
    /\ LET st == SetupProgram[sp] IN
         /\ regs' = CASE st.op = "sbi" -> [regs EXCEPT ![st.bit] = 1]
                      [] st.op = "cbi" -> [regs EXCEPT ![st.bit] = 0]
                      [] st.op = "mux" -> [regs EXCEPT !["MUX"] = ADC_PIN % 8]
                      [] st.op = "sei" -> [regs EXCEPT !["I"] = 1]
                      [] OTHER -> regs
         /\ capt_buf' = IF st.op = "capt" THEN CaptTarget ELSE capt_buf
         /\ proc_buf' = IF st.op = "proc" THEN ProcTarget ELSE proc_buf
         /\ processing' = IF st.op = "flag" THEN FALSE ELSE processing
         /\ hwlog' = Append(hwlog, st.bit)
    /\ sp' = sp + 1
    /\ pc' = IF sp = Len(SetupProgram) THEN "spin" ELSE "setup"
    /\ UNCHANGED <<rings, stream, writes, adc_bits, ring, ops>>

\* The statements of loop() after the spin, in order (visualizer.cpp:244-250).
Pipeline == <<"preprocess", "fft_input", "fft_execute", "fft_output", "postprocess">>

\* The statement after `at` in loop(); after postprocess() loop() returns and
\* is entered again at the spin.
AfterStage(at) ==
    LET k == CHOOSE n \in 1..Len(Pipeline) : Pipeline[n] = at
    IN  IF k = Len(Pipeline) THEN "spin" ELSE Pipeline[k + 1]

\* A loop() that exchanges the aliases itself on every pass.
loop_SwapsAliases ==
    /\ pc # "setup"
    /\ pc' = IF pc = "spin"
               THEN (IF processing THEN Pipeline[1] ELSE "spin")
               ELSE AfterStage(pc)
    /\ capt_buf' = proc_buf
    /\ proc_buf' = capt_buf
    /\ UNCHANGED <<regs, hwlog, sp, rings, processing,
                   stream, writes, adc_bits, ring, ops>>

\* loop(): while(!processing); then the pipeline stages. It assigns neither
\* processing nor any field of a ring, and calls no method of proc_buf.
loop ==
    /\ pc # "setup"
    /\ pc' = IF pc = "spin"
               THEN (IF processing THEN Pipeline[1] ELSE "spin")
               ELSE AfterStage(pc)
    /\ UNCHANGED <<regs, hwlog, sp, rings, capt_buf, proc_buf, processing,
                   stream, writes, adc_bits, ring, ops>>

\* The swap of lines 136-138: tmp = proc_buf; proc_buf = capt_buf; capt_buf = tmp.
Swapped == [capt |-> proc_buf, proc |-> capt_buf]

\* ISR(ADC_vect) on the sample x: capt_buf->write(ADCH); then, if
\* !processing && capt_buf->full(), processing = true and the aliases swap.
\* The handler runs with interrupts masked, so the main context sees it whole.
ISR(x) ==
    LET written == [rings EXCEPT ![capt_buf] = write(rings[capt_buf], x)]
        promote == ~processing /\ full(written[capt_buf])
    IN  /\ rings' = written
        /\ processing' = (processing \/ promote)
        /\ capt_buf' = IF promote THEN Swapped.capt ELSE capt_buf
        /\ proc_buf' = IF promote THEN Swapped.proc ELSE proc_buf
        /\ stream' = Append(stream, x)
        /\ writes' = [writes EXCEPT ![capt_buf] = @ + 1]

ADC_vect ==
    /\ InterruptsOn
    /\ Len(stream) < MaxSamples
    /\ \E x \in Samples : ISR(x)
    /\ UNCHANGED <<regs, hwlog, pc, sp, adc_bits, ring, ops>>

Next == setup \/ loop \/ ADC_vect

Spec == Init /\ [][Next]_vars

\* ------------------------------------------------- the ring on its own

\* One write(x) on the ring under test.
RingWrite ==
    /\ Len(ops) < MaxOps
    /\ \E x \in Samples :
          /\ ring' = write(ring, x)
          /\ ops' = Append(ops, x)
    /\ UNCHANGED progVars

\* One clear() on the ring under test (recorded as 0 in ops).
RingClear ==
    /\ Len(ops) < MaxOps
    /\ ring' = clear(ring)
    /\ ops' = Append(ops, 0)
    /\ UNCHANGED progVars

RingNext == RingWrite \/ RingClear

RingSpec == Init /\ [][RingNext]_vars

\* ---------------------------------------------------- reading the state

Min(a, b) == IF a <= b THEN a ELSE b

\* The stored units of a ring in slot order, slot 0 first.
Contents(r) == [k \in 1..BUF_SIZE |-> r.buffer[k - 1]]

\* The number of samples a ring holds: the writes it has received, at most
\* BUF_SIZE of them (no clear() is ever called on ping or pong).
Occupancy(n) == Min(writes[n], BUF_SIZE)

\* No clear() among the operations applied to the ring under test.
OnlyWrites == \A k \in 1..Len(ops) : ops[k] # 0

\* ------------------------------------------------------------------ claims

\* C1: the ISR invocation that delivers the BUF_SIZE-th sample makes the flag
\* true and leaves proc_buf on the ring (ping) that holds exactly those samples
\* in arrival order, oldest in slot 0. (ISR steps are atomic, so a state with
\* BUF_SIZE samples delivered is the state that invocation returns to.)
C1_FillPromotes ==
    Len(stream) = BUF_SIZE =>
        /\ processing
        /\ proc_buf = "ping"
        /\ capt_buf = "pong"
        /\ Contents(rings["ping"]) = stream

\* C2: after k writes on a freshly constructed ring, size = min(k, BUF_SIZE)
\* and full() is true exactly when k >= BUF_SIZE.
C2_SizeCountsWrites ==
    OnlyWrites =>
        /\ ring.size = Min(Len(ops), BUF_SIZE)
        /\ full(ring) <=> (Len(ops) >= BUF_SIZE)

\* C6: in every state after setup (the ISR is atomic, so every state is
\* outside its body) capt_buf and proc_buf are ping and pong, one each.
C6_AliasesPartition ==
    pc # "setup" =>
        /\ {capt_buf, proc_buf} = {"ping", "pong"}
        /\ capt_buf # proc_buf

\* C6 witness: setup has finished and the ISR has run on every sample of the
\* run, past the point where the capture ring has been written all round.
C6_Witness ==
    /\ pc # "setup"
    /\ Len(stream) = MaxSamples
    /\ writes[capt_buf] > BUF_SIZE

\* C8: once the ISR invocation that fills capt_buf has returned, the flag is
\* not false with capt_buf holding a full frame: that invocation promoted.
C8_NoIdleFullFrame ==
    (pc # "setup" /\ ~processing) => Occupancy(capt_buf) < BUF_SIZE

\* C10: the foreground never clears the flag; after 3 * BUF_SIZE samples there
\* has been one promotion, at the BUF_SIZE-th sample: proc_buf is ping holding
\* the first BUF_SIZE samples, capt_buf is pong holding the last BUF_SIZE in
\* slot order with the oldest in slot 0.
C10_SlowConsumer ==
    Len(stream) = 3 * BUF_SIZE =>
        /\ processing
        /\ proc_buf = "ping"
        /\ capt_buf = "pong"
        /\ Contents(rings["ping"]) = SubSeq(stream, 1, BUF_SIZE)
        /\ Contents(rings["pong"]) = SubSeq(stream, 2 * BUF_SIZE + 1, 3 * BUF_SIZE)
        /\ rings["pong"].i = 0

\* Reachability lemma: write() leaves size at the
\* 0 the constructor gave it, so full() is never true, the ISR never promotes,
\* the flag stays false and loop() never leaves its spin.
FlagNeverRaised ==
    /\ ~processing
    /\ pc \in {"setup", "spin"}
    /\ \A n \in {"ping", "pong"} : rings[n].size = 0 /\ ~full(rings[n])
    /\ capt_buf \in {"null", "ping"}
    /\ proc_buf \in {"null", "pong"}

\* ------------------------------------------------- claims about the ring

\* The operations applied to the ring under test are k writes, one clear()
\* and then the two writes a, b.
WritesClearTwoWrites(k) ==
    /\ Len(ops) = k + 3
    /\ \A n \in 1..k : ops[n] # 0
    /\ ops[k + 1] = 0
    /\ ops[k + 2] # 0
    /\ ops[k + 3] # 0

\* C12: a clear() leaves size = 0, and the writes after it continue from the
\* preserved write position: after k writes, clear() and two more writes, the
\* two new values are in slots k mod BUF_SIZE and (k + 1) mod BUF_SIZE (slots
\* 2 and 3 for k = 6, BUF_SIZE = 4).
C12_ClearKeepsWritePosition ==
    /\ (ops # <<>> /\ ops[Len(ops)] = 0) => ring.size = 0
    /\ \A k \in 0..(MaxOps - 3) :
          WritesClearTwoWrites(k) =>
              /\ ring.buffer[k % BUF_SIZE] = ops[k + 2]
              /\ ring.buffer[(k + 1) % BUF_SIZE] = ops[k + 3]

\* Lemma on clear() alone: a clear() step sets size to 0 and leaves i and every
\* stored unit as they were.
ClearFrame ==
    [][ops' = Append(ops, 0) =>
          /\ ring'.size = 0
          /\ ring'.i = ring.i
          /\ ring'.buffer = ring.buffer
          /\ ring'.capacity = ring.capacity]_vars

\* C13: after BUF_SIZE writes v0..v(N-1) and one more write vN, slot 0 holds
\* vN, slots 1..N-1 still hold v1..v(N-1), and the next write goes to slot 1.
C13_OverwritesOldestOnly ==
    (OnlyWrites /\ Len(ops) = BUF_SIZE + 1) =>
        /\ Contents(ring) =
              [k \in 1..BUF_SIZE |-> IF k = 1 THEN ops[BUF_SIZE + 1] ELSE ops[k]]
        /\ ring.i = 1 % BUF_SIZE

\* C14: after construction and after every write or clear, 0 <= i < BUF_SIZE
\* and 0 <= size <= BUF_SIZE; a fresh ring has i = 0, size = 0 and is not full.
C14_IndexAndSizeInRange ==
    /\ ring.i \in 0..(BUF_SIZE - 1)
    /\ ring.size \in 0..BUF_SIZE
    /\ ops = <<>> => (ring.i = 0 /\ ring.size = 0 /\ ~full(ring))

\* C14 witness: a ring that has been written past its capacity and cleared,
\* with the write index on its last slot.
C14_Witness ==
    /\ Len(ops) > BUF_SIZE + 1
    /\ ~OnlyWrites
    /\ ring.i = BUF_SIZE - 1

\* The width the table 4->5, 8->7, 16->8, 32->9, 64->9, 128->9 gives P.
TableWidth(P) ==
    CASE P = 4 -> 5 [] P = 8 -> 7 [] P = 16 -> 8
      [] P = 32 -> 9 [] P = 64 -> 9 [] P = 128 -> 9

\* C15: the width the build selects is the table's width for the configured
\* prescaler (no build error for a prescaler of the table), one byte of
\* storage and a read of ADCH alone when it is <= 8, two bytes and a read of
\* the low byte before the high byte when it is > 8.
C15_WidthFollowsPrescaler ==
    /\ adc_bits # BuildError
    /\ adc_bits = TableWidth(ADC_PRESCALER)
    /\ adc_bits <= 8 => (StorageBytes(adc_bits) = 1 /\ IsrRead(adc_bits) = <<"ADCH">>)
    /\ adc_bits > 8 => (StorageBytes(adc_bits) = 2 /\ IsrRead(adc_bits) = <<"ADCL", "ADCH">>)

\* ------------------------------------------------- claims about start-up

\* setup() has executed the statement that writes the setting b.
Written(b) == \E k \in 1..Len(hwlog) : hwlog[k] = b

\* The sampler settings other than the start of the first conversion (ADSC)
\* and the global interrupt enable (I).
OtherSettings == RegBits \ {"ADSC", "I"}

\* C16: the first conversion is started only after every other sampler setting
\* has been written and global interrupts are enabled, and global interrupts
\* are enabled only after all of those settings.
C16_ConversionStartsLast ==
    /\ Written("ADSC") => (Written("I") /\ \A b \in OtherSettings : Written(b))
    /\ Written("I") => \A b \in OtherSettings : Written(b)

\* C17: in any state in which the first ISR invocation can start (interrupts
\* deliverable, no sample delivered yet) capt_buf is ping, proc_buf is pong,
\* the flag is false and both rings have i = 0 and size = 0.
C17_FirstInterruptSeesSetup ==
    (InterruptsOn /\ stream = <<>>) =>
        /\ capt_buf = "ping"
        /\ proc_buf = "pong"
        /\ ~processing
        /\ \A n \in {"ping", "pong"} : rings[n].i = 0 /\ rings[n].size = 0

\* C17 witness: the state the first ISR invocation starts in.
C17_Witness ==
    /\ InterruptsOn
    /\ stream = <<>>
    /\ pc = "spin"

\* C19: once setup has run, the prescaler programmed into the converter is the
\* configured ADC_PRESCALER.
C19_PrescalerIsConfigured ==
    pc # "setup" => ProgrammedPrescaler = ADC_PRESCALER

\* C20: after setup, a step that is not an ISR invocation (it delivers no
\* sample) does not raise the flag, exchange the aliases or change a stored
\* unit or write index of either ring; an ISR invocation does not lower the
\* flag or reset the size of a ring.
C20_DisjointOwnership ==
    [][pc # "setup" =>
          /\ stream' = stream =>
                /\ ~(~processing /\ processing')
                /\ capt_buf' = capt_buf
                /\ proc_buf' = proc_buf
                /\ \A n \in {"ping", "pong"} :
                      /\ rings'[n].buffer = rings[n].buffer
                      /\ rings'[n].i = rings[n].i
          /\ stream' # stream =>
                /\ ~(processing /\ ~processing')
                /\ \A n \in {"ping", "pong"} : rings'[n].size >= rings[n].size
      ]_vars

\* C20 witness: the ISR has written samples into the capture ring while the
\* foreground sits in loop().
C20_Witness ==
    /\ pc = "spin"
    /\ Len(stream) = MaxSamples
    /\ rings[capt_buf].buffer # [k \in Slots |-> 0]
    /\ rings[proc_buf].buffer = [k \in Slots |-> 0]

====
